---------------------------- MODULE Spec2Model ----------------------------
(***************************************************************************)
(* Model of the Coordinate trait (src/src/lib.rs): a fixed-dimension tuple *)
(* of Numeric scalars with the required primitives gen and val, and the   *)
(* default operations derived from them.                                   *)
(*                                                                         *)
(* A coordinate is a function from 0..DIM-1 to scalars.  The trait is      *)
(* generic in its Scalar; two kinds of Numeric scalar are modelled:        *)
(*   "int"   - a two's complement integer of IntBits bits.  On overflow    *)
(*             the build either panics (overflow checks on) or wraps;      *)
(*   "float" - a binary floating point number with a significand of        *)
(*             MantBits bits, round-to-nearest-even, overflow to infinity, *)
(*             and NaN.  Only integer-valued finite floats are drawn.      *)
(* The loops of all_comp and fold are modelled one iteration per step; the *)
(* operations built on gen are one step each.                              *)
(***************************************************************************)
EXTENDS Integers, Sequences, FiniteSets, TLC

\* ------------------------------------------------------------- bounds
\* largest DIM a coordinate type of the model has
MaxDim == 2
\* width of the integer scalar (8: i8)
IntBits == 8
\* significand width of the float scalar
MantBits == 5
\* largest exponent of a finite float: every finite value is below 2^(MaxExp+1)
MaxExp == 12

VARIABLES
    DIM,              \* const DIM of the coordinate type
    scalar,           \* kind of the Scalar type: "int" or "float"
    overflow_checks,  \* integer overflow panics (TRUE) or wraps (FALSE)
    a, b,             \* two coordinates of the type
    pc,               \* "idle", "all_comp", "fold", "done", "panicked"
    op,               \* the operation called (chained calls joined by ".")
    func,             \* the closure passed to all_comp / fold / map
    k,                \* the scalar argument (mult, new_from_value, fold's start_val)
    recv,             \* self of the running all_comp / fold loop
    i,                \* loop index of all_comp / fold
    bln,              \* all_comp's bln
    total,            \* fold's total
    evals,            \* the indices at which the closure was called, in call order
    accessed,         \* the indices passed to val by the operation
    fault,            \* "none", "overflow" or "unreachable" (why it panicked)
    res_c,            \* result, when a coordinate
    res_s,            \* result, when a scalar
    res_b             \* result, when a bool

vars == <<DIM, scalar, overflow_checks, a, b, pc, op, func, k, recv, i, bln,
          total, evals, accessed, fault, res_c, res_s, res_b>>

\* ------------------------------------------------------------- scalars
Fin(n) == [t |-> "fin", n |-> n]
NaN == [t |-> "nan", n |-> 0]
Inf == [t |-> "inf", n |-> 1]
NegInf == [t |-> "inf", n |-> -1]
\* a panic raised while a scalar was computed: arithmetic overflow ...
Overflowed == [t |-> "overflow", n |-> 0]
\* ... or the unreachable!() arm of val
Unreachable == [t |-> "unreachable", n |-> 0]

IsPanic(x) == x.t \in {"overflow", "unreachable"}
\* of two operands, the panic that was raised first
FirstPanic(x, y) == IF IsPanic(x) THEN x ELSE y

MaxInt == 2^(IntBits - 1) - 1
MinInt == -(2^(IntBits - 1))
Wrap(n) == ((n - MinInt) % 2^IntBits) + MinInt

\* result of an integer operation whose mathematical value is n
IntResult(n) ==
    IF n >= MinInt /\ n <= MaxInt THEN Fin(n)
    ELSE IF overflow_checks THEN Overflowed
    ELSE Fin(Wrap(n))

Abs(n) == IF n < 0 THEN -n ELSE n
Sign(n) == IF n < 0 THEN -1 ELSE IF n > 0 THEN 1 ELSE 0

RECURSIVE QuantumOf(_, _)
\* spacing of the floats around magnitude m: the least q = 2^e with m < 2^MantBits * q
QuantumOf(m, q) == IF m < 2^MantBits * q THEN q ELSE QuantumOf(m, 2 * q)

\* the float nearest to the integer n, ties to the even significand
FloatResult(n) ==
    LET m == Abs(n)
        q == QuantumOf(m, 1)
        lo == (m \div q) * q
        rem == m - lo
        r == IF 2 * rem < q THEN lo
             ELSE IF 2 * rem > q THEN lo + q
             ELSE IF (lo \div q) % 2 = 0 THEN lo ELSE lo + q
    IN  IF r >= 2^(MaxExp + 1) THEN [t |-> "inf", n |-> Sign(n)]
        ELSE Fin(Sign(n) * r)

FloatAdd(x, y) ==
    IF x.t = "nan" \/ y.t = "nan" THEN NaN
    ELSE IF x.t = "inf" /\ y.t = "inf" THEN (IF x.n = y.n THEN x ELSE NaN)
    ELSE IF x.t = "inf" THEN x
    ELSE IF y.t = "inf" THEN y
    ELSE FloatResult(x.n + y.n)

FloatNeg(x) == IF x.t = "nan" THEN NaN ELSE [t |-> x.t, n |-> -x.n]

FloatMul(x, y) ==
    IF x.t = "nan" \/ y.t = "nan" THEN NaN
    ELSE IF x.t = "inf" \/ y.t = "inf"
         THEN (IF x.n = 0 \/ y.n = 0 THEN NaN
               ELSE [t |-> "inf", n |-> Sign(x.n) * Sign(y.n)])
    ELSE FloatResult(x.n * y.n)

\* Numeric: l + r
SAdd(x, y) ==
    IF IsPanic(x) \/ IsPanic(y) THEN FirstPanic(x, y)
    ELSE IF scalar = "int" THEN IntResult(x.n + y.n)
    ELSE FloatAdd(x, y)

\* Numeric: l - r
SSub(x, y) ==
    IF IsPanic(x) \/ IsPanic(y) THEN FirstPanic(x, y)
    ELSE IF scalar = "int" THEN IntResult(x.n - y.n)
    ELSE FloatAdd(x, FloatNeg(y))

\* Numeric: l * r
SMul(x, y) ==
    IF IsPanic(x) \/ IsPanic(y) THEN FirstPanic(x, y)
    ELSE IF scalar = "int" THEN IntResult(x.n * y.n)
    ELSE FloatMul(x, y)

\* position of a non-NaN scalar on the number line (infinities beyond every finite)
Key(x) == IF x.t = "inf" THEN x.n * 2^(2 * MaxExp + 4) ELSE x.n

\* PartialOrd: l < r (false when either is NaN)
SLt(x, y) == x.t # "nan" /\ y.t # "nan" /\ Key(x) < Key(y)

\* PartialEq: l == r (false when either is NaN)
SEq(x, y) == x.t # "nan" /\ y.t # "nan" /\ x = y

\* Zero::zero()
Zero == Fin(0)

\* bs_num::min, bs_num::max
SMin(x, y) == IF IsPanic(x) \/ IsPanic(y) THEN FirstPanic(x, y)
              ELSE IF SLt(x, y) THEN x ELSE y
SMax(x, y) == IF IsPanic(x) \/ IsPanic(y) THEN FirstPanic(x, y)
              ELSE IF SLt(y, x) THEN x ELSE y


\* ------------------------------------------------------------- coordinates
\* the valid indices of the coordinate type
Indices == 0 .. (DIM - 1)

\* the indices a closure over usize is defined at
Usize == 0 .. MaxDim

\* gen: val_fn (a function of the index) is invoked once for each index of [0, DIM)
gen(val_fn) == [idx \in Indices |-> val_fn[idx]]

\* val: the component at idx; the out-of-range arm is unreachable!()
val(self, idx) == IF idx \in DOMAIN self THEN self[idx] ELSE Unreachable

\* the test's two-dimensional point Pt { x, y }
Pt(x, y) == [idx \in 0 .. 1 |-> IF idx = 0 THEN x ELSE y]

new_from_value(v) == gen([idx \in Usize |-> v])

new_origin == new_from_value(Zero)

\* the functions passed to component_wise:
\*   "min" bs_num::min, "max" bs_num::max, "add" |l, r| l + r, "sub" |l, r| l - r
Call2(f, l, r) ==
    IF f = "min" THEN SMin(l, r)
    ELSE IF f = "max" THEN SMax(l, r)
    ELSE IF f = "add" THEN SAdd(l, r)
    ELSE SSub(l, r)

component_wise(self, other, f) ==
    gen([idx \in Usize |-> Call2(f, val(self, idx), val(other, idx))])

\* min_of_bounds taking the larger component
min_of_bounds_AsMax(self, other) == component_wise(self, other, "max")

min_of_bounds(self, other) == component_wise(self, other, "min")

max_of_bounds(self, other) == component_wise(self, other, "max")

add(self, other) == component_wise(self, other, "add")

\* sub with the operands of the subtraction exchanged
sub_Swapped(self, other) == component_wise(other, self, "sub")

sub(self, other) == component_wise(self, other, "sub")

\* comp as the component-wise sum
comp_AsAdd(self, other) == add(self, other)

comp(self, other) == sub(self, other)

\* the transforms passed to map, as <<name, captured scalar>>:
\*   "scale"  |v| k * v  (mult's)
\*   "triple" |x| x * 3  (the test's)
\*   "square" |x| x * x
Transform(t, v) ==
    IF t[1] = "scale" THEN SMul(t[2], v)
    ELSE IF t[1] = "triple" THEN SMul(v, Fin(3))
    ELSE SMul(v, v)

map(self, transform) == gen([idx \in Usize |-> Transform(transform, val(self, idx))])

\* mult adding k to every component
mult_AddK(self, kk) == component_wise(self, new_from_value(kk), "add")

\* mult scaling the component at index 0 into every component
mult_ByFirst(self, kk) == map(new_from_value(val(self, 0)), <<"scale", kk>>)

mult(self, kk) == map(self, <<"scale", kk>>)

\* #[derive(PartialEq)] on the coordinate: every field equal under the scalar's ==
CoordEq(c, d) == DOMAIN c = DOMAIN d /\ \A idx \in DOMAIN c : SEq(c[idx], d[idx])

\* a panic was raised while the coordinate was generated
CoordPanic(c) == \E idx \in DOMAIN c : IsPanic(c[idx])

\* the panic gen met first (it calls val_fn in index order)
FaultOf(c) ==
    LET j == CHOOSE idx \in DOMAIN c :
                 IsPanic(c[idx]) /\ \A h \in DOMAIN c : IsPanic(c[h]) => idx <= h
    IN  c[j].t

\* ------------------------------------------------------------- closures
\* the predicates passed to all_comp
Predicates == {"both_even", "lt", "eq"}

\* the test's even(x): x % 2 == 0
even(x) == x.t = "fin" /\ x.n % 2 = 0

both_even(x, y) == even(x) /\ even(y)

Pred(p, l, r) ==
    IF p = "both_even" THEN both_even(l, r)
    ELSE IF p = "lt" THEN SLt(l, r)
    ELSE SEq(l, r)

\* the combining functions passed to fold:
\*   "add"   |acc, v| acc + v
\*   "rsub"  |acc, v| v - acc        (neither commutative nor associative)
\*   "sumsq" |acc, v| acc + (v * v)  (square_length's)
FoldFns == {"add", "rsub"}

FoldFn(f, acc, v) ==
    IF f = "add" THEN SAdd(acc, v)
    ELSE IF f = "rsub" THEN SSub(v, acc)
    ELSE SAdd(acc, SMul(v, v))

\* the transforms map is called with
Transforms == {<<"triple", Zero>>, <<"square", Zero>>}

\* ------------------------------------------------------------- inputs
IntValues == {Fin(MinInt), Fin(-1), Fin(0), Fin(2), Fin(MaxInt)}

\* the least power of two whose successor is not a float
Big == 2^MantBits

FloatValues == {NaN, Inf, Fin(-1), Fin(0), Fin(1), Fin(Big)}

Values(kind) == IF kind = "int" THEN IntValues ELSE FloatValues

\* the scalar arguments of mult, new_from_value and fold
Scalars == {Fin(0), Fin(1), Fin(3)}

\* the points of tests::test_pt_using_coordinates
Scenarios ==
    { [scalar |-> "float", a |-> Pt(Fin(1), Fin(1)), b |-> Pt(Fin(4), Fin(5))],
      [scalar |-> "float", a |-> Pt(Fin(3), Fin(4)), b |-> Pt(Fin(0), Fin(0))],
      [scalar |-> "float", a |-> Pt(Fin(2), Fin(2)), b |-> Pt(Fin(1), Fin(7))],
      [scalar |-> "int", a |-> Pt(Fin(2), Fin(2)), b |-> Pt(Fin(8), Fin(10))] }

Idle ==
    /\ pc = "idle"
    /\ op = "none"
    /\ func = "none"
    /\ k = Zero
    /\ recv = << >>
    /\ i = 0
    /\ bln = TRUE
    /\ total = Zero
    /\ evals = << >>
    /\ accessed = {}
    /\ fault = "none"
    /\ res_c = << >>
    /\ res_s = Zero
    /\ res_b = FALSE

Init ==
    /\ \/ /\ DIM \in 0 .. MaxDim
          /\ scalar \in {"int", "float"}
          /\ a \in [Indices -> Values(scalar)]
          /\ b \in [Indices -> Values(scalar)]
       \/ /\ DIM = 2
          /\ \E s \in Scenarios : scalar = s.scalar /\ a = s.a /\ b = s.b
    /\ overflow_checks \in (IF scalar = "int" THEN BOOLEAN ELSE {FALSE})
    /\ Idle

inputs == <<DIM, scalar, overflow_checks, a, b>>

\* ------------------------------------------------------------- gen-built operations
\* an operation built on gen returns coordinate c, or panics when generating it did
ReturnCoord(name, c) ==
    /\ op' = name
    /\ accessed' = DOMAIN c
    /\ IF CoordPanic(c)
       THEN pc' = "panicked" /\ fault' = FaultOf(c) /\ res_c' = << >>
       ELSE pc' = "done" /\ fault' = "none" /\ res_c' = c
    /\ UNCHANGED <<inputs, recv, i, bln, total, evals, res_s, res_b>>

NewOrigin ==
    /\ pc = "idle"
    /\ ReturnCoord("new_origin", new_origin)
    /\ UNCHANGED <<func, k>>

NewFromValue ==
    /\ pc = "idle"
    /\ \E v \in Scalars : k' = v /\ ReturnCoord("new_from_value", new_from_value(v))
    /\ UNCHANGED func

Add ==
    /\ pc = "idle"
    /\ ReturnCoord("add", add(a, b))
    /\ UNCHANGED <<func, k>>

\* a.add(b).sub(b): sub called on the result of add
SubAfterAdd ==
    /\ pc = "done"
    /\ op = "add"
    /\ ReturnCoord("add.sub", sub(res_c, b))
    /\ UNCHANGED <<func, k>>

Sub ==
    /\ pc = "idle"
    /\ ReturnCoord("sub", sub(a, b))
    /\ UNCHANGED <<func, k>>

Comp ==
    /\ pc = "idle"
    /\ ReturnCoord("comp", comp(a, b))
    /\ UNCHANGED <<func, k>>

MinOfBounds ==
    /\ pc = "idle"
    /\ ReturnCoord("min_of_bounds", min_of_bounds(a, b))
    /\ UNCHANGED <<func, k>>

MaxOfBounds ==
    /\ pc = "idle"
    /\ ReturnCoord("max_of_bounds", max_of_bounds(a, b))
    /\ UNCHANGED <<func, k>>

Mult ==
    /\ pc = "idle"
    /\ \E kk \in Scalars : k' = kk /\ ReturnCoord("mult", mult(a, kk))
    /\ UNCHANGED func

Map ==
    /\ pc = "idle"
    /\ \E t \in Transforms :
          /\ func' = t[1]
          /\ ReturnCoord("map", map(a, t))
    /\ UNCHANGED k

\* ------------------------------------------------------------- all_comp
AllCompCall ==
    /\ pc = "idle"
    /\ \E p \in Predicates : func' = p
    /\ pc' = "all_comp"
    /\ op' = "all_comp"
    /\ recv' = a
    /\ bln' = TRUE
    /\ i' = 0
    /\ UNCHANGED <<inputs, k, total, evals, accessed, fault, res_c, res_s, res_b>>

\* all_comp with the loop condition i < Self::DIM alone (no early exit)
AllCompContinue_NoExit == i < DIM

\* all_comp with the loop stopping one index short of DIM
AllCompContinue_Short == bln /\ i < DIM - 1

\* the loop condition of all_comp: while bln && i < Self::DIM
AllCompContinue == bln /\ i < DIM

\* the loop body of all_comp: bln = func(self.val(i), other.val(i)); i += 1;
AllCompStep ==
    /\ pc = "all_comp"
    /\ AllCompContinue
    /\ accessed' = accessed \cup {i}
    /\ LET l == val(recv, i)
           r == val(b, i)
       IN  IF IsPanic(l) \/ IsPanic(r)
           THEN /\ pc' = "panicked"
                /\ fault' = FirstPanic(l, r).t
                /\ UNCHANGED <<bln, i, evals>>
           ELSE /\ bln' = Pred(func, l, r)
                /\ evals' = Append(evals, i)
                /\ i' = i + 1
                /\ UNCHANGED <<pc, fault>>
    /\ UNCHANGED <<inputs, op, func, k, recv, total, res_c, res_s, res_b>>

AllCompReturn ==
    /\ pc = "all_comp"
    /\ ~AllCompContinue
    /\ pc' = "done"
    /\ res_b' = bln
    /\ UNCHANGED <<inputs, op, func, k, recv, i, bln, total, evals, accessed,
                   fault, res_c, res_s>>

\* ------------------------------------------------------------- fold
\* let mut total = start_val, entering for i in 0..Self::DIM
FoldEnter(name, self, f, start_val) ==
    /\ pc' = "fold"
    /\ op' = name
    /\ func' = f
    /\ k' = start_val
    /\ recv' = self
    /\ total' = start_val
    /\ i' = 0
    /\ UNCHANGED <<inputs, bln, evals, fault, res_c, res_s, res_b>>

FoldCall ==
    /\ pc = "idle"
    /\ \E f \in FoldFns, start_val \in {Fin(0), Fin(1)} :
           FoldEnter("fold", a, f, start_val)
    /\ UNCHANGED accessed

\* square_length summing the components, not their squares
square_length_NoSquare(name, self) == FoldEnter(name, self, "add", Zero)

\* square_length: self.fold(Zero::zero(), |acc, v| acc + (v * v))
square_length(name, self) == FoldEnter(name, self, "sumsq", Zero)

SquareLength ==
    /\ pc = "idle"
    /\ square_length("square_length", a)
    /\ UNCHANGED accessed

\* self.comp(other).square_length()
SquareDistance ==
    /\ pc = "idle"
    /\ LET d == comp(a, b)
       IN  /\ accessed' = DOMAIN d
           /\ IF CoordPanic(d)
              THEN /\ pc' = "panicked"
                   /\ op' = "square_distance"
                   /\ fault' = FaultOf(d)
                   /\ UNCHANGED <<inputs, func, k, recv, total, i, bln, evals,
                                  res_c, res_s, res_b>>
              ELSE square_length("square_distance", d)

\* fold with the inclusive range 0..=Self::DIM
FoldContinue_Inclusive == i <= DIM

\* the range of fold's loop: for i in 0..Self::DIM
FoldContinue == i < DIM

\* fold visiting the components from the last index down to 0
FoldStep_Reversed ==
    /\ pc = "fold"
    /\ FoldContinue
    /\ accessed' = accessed \cup {DIM - 1 - i}
    /\ LET v == val(recv, DIM - 1 - i)
           t == FoldFn(func, total, v)
       IN  IF IsPanic(t)
           THEN /\ pc' = "panicked"
                /\ fault' = t.t
                /\ evals' = IF IsPanic(v) THEN evals ELSE Append(evals, DIM - 1 - i)
                /\ UNCHANGED <<total, i>>
           ELSE /\ total' = t
                /\ evals' = Append(evals, DIM - 1 - i)
                /\ i' = i + 1
                /\ UNCHANGED <<pc, fault>>
    /\ UNCHANGED <<inputs, op, func, k, recv, bln, res_c, res_s, res_b>>

\* the loop body of fold: total = func(total, self.val(i))
FoldStep ==
    /\ pc = "fold"
    /\ FoldContinue
    /\ accessed' = accessed \cup {i}
    /\ LET v == val(recv, i)
           t == FoldFn(func, total, v)
       IN  IF IsPanic(t)
           THEN /\ pc' = "panicked"
                /\ fault' = t.t
                /\ evals' = IF IsPanic(v) THEN evals ELSE Append(evals, i)
                /\ UNCHANGED <<total, i>>
           ELSE /\ total' = t
                /\ evals' = Append(evals, i)
                /\ i' = i + 1
                /\ UNCHANGED <<pc, fault>>
    /\ UNCHANGED <<inputs, op, func, k, recv, bln, res_c, res_s, res_b>>

FoldReturn ==
    /\ pc = "fold"
    /\ ~FoldContinue
    /\ pc' = "done"
    /\ res_s' = total
    /\ UNCHANGED <<inputs, op, func, k, recv, i, bln, total, evals, accessed,
                   fault, res_c, res_b>>

Next ==
    \/ NewOrigin
    \/ NewFromValue
    \/ Add
    \/ SubAfterAdd
    \/ Sub
    \/ Comp
    \/ MinOfBounds
    \/ MaxOfBounds
    \/ Mult
    \/ Map
    \/ AllCompCall
    \/ AllCompStep
    \/ AllCompReturn
    \/ FoldCall
    \/ SquareLength
    \/ SquareDistance
    \/ FoldStep
    \/ FoldReturn

Spec == Init /\ [][Next]_vars

TypeOK ==
    /\ DIM \in 0 .. MaxDim
    /\ DOMAIN a = Indices /\ DOMAIN b = Indices
    /\ pc \in {"idle", "all_comp", "fold", "done", "panicked"}
    /\ i \in 0 .. (DIM + 1)
    /\ bln \in BOOLEAN /\ res_b \in BOOLEAN
    /\ fault \in {"none", "overflow", "unreachable"}

\* ------------------------------------------------------------- claims
\* the predicate passed to all_comp, at index idx of the two coordinates
PredAt(idx) == Pred(func, a[idx], b[idx])

\* the indices at which the predicate fails
Failing == {idx \in Indices : ~PredAt(idx)}

\* the first of them
FirstFailing == CHOOSE idx \in Failing : \A h \in Failing : idx <= h

\* C1: all_comp evaluates the predicate at indices 0, 1, 2, ... in strictly
\* increasing order, each at most once, never at an index beyond the first one
\* at which it returned false; when it returns, the number of evaluations is
\* (first failing index + 1) if some index fails and DIM otherwise.
C1_ShortCircuit ==
    op = "all_comp" =>
        /\ \A j \in 1 .. Len(evals) : evals[j] = j - 1
        /\ \A j \in 1 .. Len(evals) : \A h \in Failing : h >= evals[j]
        /\ pc = "done" =>
               Len(evals) = IF Failing # {} THEN FirstFailing + 1 ELSE DIM

\* all_comp returned after the predicate failed at index 0 of a two-dimensional
\* pair whose index 1 was never evaluated
C1_Witness ==
    /\ op = "all_comp" /\ pc = "done"
    /\ DIM = 2
    /\ Failing = {0}
    /\ evals = <<0>>

\* C2: all_comp returns true if and only if the predicate holds at every index
\* of [0, DIM); with DIM = 0 it returns true and evaluates nothing.
C2_AllCompResult ==
    (op = "all_comp" /\ pc = "done") =>
        /\ res_b <=> \A idx \in Indices : PredAt(idx)
        /\ DIM = 0 => res_b /\ evals = << >>

\* the test's all_comp(&b, both_even) on (2,2) and (8,10) returned true
C2_Witness ==
    /\ op = "all_comp" /\ pc = "done"
    /\ scalar = "int"
    /\ a = Pt(Fin(2), Fin(2)) /\ b = Pt(Fin(8), Fin(10))
    /\ func = "both_even"
    /\ res_b

RECURSIVE FoldLeft(_)
\* f(...f(f(start, val(0)), val(1))..., val(n-1)) of the running fold
FoldLeft(n) ==
    IF n = 0 THEN k ELSE FoldFn(func, FoldLeft(n - 1), recv[n - 1])

RECURSIVE FoldRight(_)
\* the same components combined from index DIM-1 down to n
FoldRight(n) ==
    IF n = DIM THEN k ELSE FoldFn(func, FoldRight(n + 1), recv[n])

\* C3: fold returns f(...f(f(start, val(0)), val(1))..., val(DIM-1)), having
\* called f exactly DIM times, at indices 0 .. DIM-1 in that order; with
\* DIM = 0 it returns start.
C3_FoldLeftToRight ==
    (op = "fold" /\ pc = "done") =>
        /\ res_s = FoldLeft(DIM)
        /\ Len(evals) = DIM
        /\ \A j \in 1 .. Len(evals) : evals[j] = j - 1
        /\ DIM = 0 => res_s = k

\* a fold with the non-commutative |acc, v| v - acc returned a value that the
\* opposite order of the same components does not give
C3_Witness ==
    /\ op = "fold" /\ pc = "done"
    /\ func = "rsub"
    /\ DIM = 2
    /\ res_s # FoldRight(0)

\* every component is a finite number (neither NaN nor infinite)
AllFinite(c) == \A idx \in DOMAIN c : c[idx].t = "fin"

\* no component is NaN
NoNaN(c) == \A idx \in DOMAIN c : c[idx].t # "nan"

\* the scalar type computes x + y without rounding it to another value
\* (integers: always, a wrapped sum is undone by the wrapped difference)
ExactSum(x, y) ==
    /\ x.t = "fin" /\ y.t = "fin"
    /\ scalar = "float" => FloatResult(x.n + y.n) = Fin(x.n + y.n)

\* C4 as stated: for all coordinates a and b, a.add(b).sub(b) == a.
C4_Original ==
    (op = "add.sub" /\ pc = "done") => CoordEq(res_c, a)

\* C4: for all coordinates a and b with finite components whose sums
\* a.val(i) + b.val(i) the scalar type computes without rounding,
\* a.add(b).sub(b) == a.
C4_AddSubInverse ==
    (op = "add.sub" /\ pc = "done" /\ \A idx \in Indices : ExactSum(a[idx], b[idx]))
        => CoordEq(res_c, a)

\* a.add(b).sub(b) returned for two-dimensional float coordinates with nonzero
\* components and exact sums
C4_Witness ==
    /\ op = "add.sub" /\ pc = "done"
    /\ scalar = "float" /\ DIM = 2
    /\ \A idx \in Indices : ExactSum(a[idx], b[idx]) /\ a[idx].n # 0 /\ b[idx].n # 0

\* C5 as stated: for every coordinate a, a.mult(1) == a and
\* a.mult(0) == new_origin().
C5_Original ==
    (op = "mult" /\ pc = "done") =>
        /\ k = Fin(1) => CoordEq(res_c, a)
        /\ k = Zero => CoordEq(res_c, new_origin)

\* C5: for every coordinate a with finite components, a.mult(1) == a and
\* a.mult(0) == new_origin().
C5_MultIdentityZero ==
    (op = "mult" /\ pc = "done" /\ AllFinite(a)) =>
        /\ k = Fin(1) => CoordEq(res_c, a)
        /\ k = Zero => CoordEq(res_c, new_origin)

\* a.mult(0) returned for a two-dimensional float coordinate with finite nonzero
\* components
C5_Witness ==
    /\ op = "mult" /\ pc = "done"
    /\ scalar = "float" /\ DIM = 2
    /\ k = Zero
    /\ AllFinite(a) /\ \A idx \in Indices : a[idx].n # 0

\* x is the lesser of l and r: one of them, and neither is below it
IsMin(x, l, r) == x \in {l, r} /\ ~SLt(l, x) /\ ~SLt(r, x)

\* x is the greater of l and r
IsMax(x, l, r) == x \in {l, r} /\ ~SLt(x, l) /\ ~SLt(x, r)

\* C6 as stated: for all coordinates a, b and every index i,
\* a.min_of_bounds(b).val(i) == min(a.val(i), b.val(i)),
\* a.max_of_bounds(b).val(i) == max(a.val(i), b.val(i)), and
\* a.min_of_bounds(b) == b.min_of_bounds(a).
C6_Original ==
    /\ (op = "min_of_bounds" /\ pc = "done") =>
           /\ \A idx \in Indices :
                  SEq(val(res_c, idx), SMin(val(a, idx), val(b, idx)))
           /\ CoordEq(res_c, min_of_bounds(b, a))
    /\ (op = "max_of_bounds" /\ pc = "done") =>
           \A idx \in Indices :
               SEq(val(res_c, idx), SMax(val(a, idx), val(b, idx)))

\* C6: for all coordinates a, b without a NaN component and every index i,
\* a.min_of_bounds(b).val(i) is the lesser and a.max_of_bounds(b).val(i) the
\* greater of a.val(i) and b.val(i), and a.min_of_bounds(b) == b.min_of_bounds(a).
C6_BoundsExtrema ==
    (NoNaN(a) /\ NoNaN(b)) =>
        /\ (op = "min_of_bounds" /\ pc = "done") =>
               /\ \A idx \in Indices :
                      IsMin(res_c[idx], a[idx], b[idx])
                      /\ SEq(val(res_c, idx), SMin(val(a, idx), val(b, idx)))
               /\ CoordEq(res_c, min_of_bounds(b, a))
        /\ (op = "max_of_bounds" /\ pc = "done") =>
               \A idx \in Indices :
                   IsMax(res_c[idx], a[idx], b[idx])
                   /\ SEq(val(res_c, idx), SMax(val(a, idx), val(b, idx)))

\* min_of_bounds returned for the test's (2,2) and (1,7): the lesser component
\* comes from b at index 0 and from a at index 1
C6_Witness ==
    /\ op = "min_of_bounds" /\ pc = "done"
    /\ a = Pt(Fin(2), Fin(2)) /\ b = Pt(Fin(1), Fin(7))
    /\ res_c = Pt(Fin(1), Fin(2))

RECURSIVE SumSq(_, _)
\* zero + c[0]*c[0] + ... + c[n-1]*c[n-1], accumulated in the scalar type
SumSq(c, n) ==
    IF n = 0 THEN Zero ELSE SAdd(SumSq(c, n - 1), SMul(c[n - 1], c[n - 1]))

\* the coordinate constructed with the differences a.val(i) - b.val(i)
Differences == [idx \in Indices |-> SSub(a[idx], b[idx])]

\* C7: a.square_distance(b) is the sum over i in [0, DIM) of
\* (a.val(i) - b.val(i))^2 accumulated from zero, which is what square_length
\* returns for the coordinate constructed with those differences.
C7_SquareDistance ==
    /\ (op = "square_distance" /\ pc = "done") =>
           res_s = SumSq(Differences, DIM)
    /\ (op = "square_length" /\ pc = "done") =>
           res_s = SumSq(a, DIM)

\* the test's a = (1,1), b = (4,5): a.square_distance(b) returned 25
C7_Witness ==
    /\ op = "square_distance" /\ pc = "done"
    /\ a = Pt(Fin(1), Fin(1)) /\ b = Pt(Fin(4), Fin(5))
    /\ res_s = Fin(25)

\* C8 as stated: for every coordinate a, a.square_distance(a) == 0.
C8_Original ==
    (op = "square_distance" /\ pc = "done" /\ b = a) => SEq(res_s, Zero)

\* C8: for every coordinate a with finite components,
\* a.square_distance(a) == 0.
C8_DistanceToSelf ==
    (op = "square_distance" /\ pc = "done" /\ b = a /\ AllFinite(a))
        => SEq(res_s, Zero)

\* a.square_distance(a) returned for a two-dimensional float coordinate with
\* finite nonzero components
C8_Witness ==
    /\ op = "square_distance" /\ pc = "done"
    /\ b = a
    /\ scalar = "float" /\ DIM = 2
    /\ AllFinite(a) /\ \A idx \in Indices : a[idx].n # 0

\* C9: a.mult(k) has k * a.val(i) at every index i and is a.map(|v| k * v);
\* a.map(transform) has transform(a.val(i)) at every index i.
C9_MultMap ==
    /\ (op = "mult" /\ pc = "done") =>
           /\ DOMAIN res_c = Indices
           /\ \A idx \in Indices : res_c[idx] = SMul(k, a[idx])
           /\ res_c = map(a, <<"scale", k>>)
    /\ (op = "map" /\ pc = "done") =>
           /\ DOMAIN res_c = Indices
           /\ \A idx \in Indices : res_c[idx] = Transform(<<func, Zero>>, a[idx])

\* a.mult(3) returned for a float coordinate with two different components
C9_Witness ==
    /\ op = "mult" /\ pc = "done"
    /\ scalar = "float" /\ DIM = 2
    /\ k = Fin(3)
    /\ a = Pt(Fin(1), Fin(0))
    /\ res_c = Pt(Fin(3), Fin(0))

\* C10: every index a derived operation passes to val is in [0, DIM), and the
\* unreachable arm of val is never entered.
C10_IndicesInRange ==
    /\ accessed \subseteq Indices
    /\ fault # "unreachable"

\* a fold over a coordinate of the largest dimension returned, having read
\* every index
C10_Witness ==
    /\ op = "fold" /\ pc = "done"
    /\ DIM = 2
    /\ accessed = {0, 1}

=============================================================================
